---------------------------- MODULE Spec2Model ----------------------------
(***************************************************************************)
(* A model of webotron's BucketManager (01-webtoron/webotron/bucket.py):   *)
(* init_bucket, load_manifest, gen_etag, upload_file and sync, run against *)
(* an S3-like object store and a local file system.                        *)
(*                                                                         *)
(* Python strings are sequences of one-character tokens (an ETag) or of    *)
(* path components and separators (a key); None is a value of its own.     *)
(* Sizes are scaled: CHUNK_SIZE stands for the source's 8388608 bytes and  *)
(* an MD5 digest is DIGEST_SIZE bytes long instead of 16.                  *)
(***************************************************************************)
EXTENDS Naturals, Integers, Sequences, FiniteSets, Bags, TLC

VARIABLES
    fs,         \* the local file system: absolute path -> node
    sep,        \* the platform's path separator, the one str(Path) joins with
    owner,      \* the store: bucket name -> "none" | "me" | "other"
    store,      \* the store: bucket -> (key -> object)
    manifest,   \* self.manifest: key -> ETag
    pc,         \* "idle" | "listing" | "walking"
    call,       \* the operation in progress or last finished
    listing,    \* the paginator of the load in progress
    stack,      \* the handle_directory frames of the walk in progress
    visits,     \* the upload_file calls of the current sync run (a bag)
    result,     \* how the last operation ended
    run,        \* history of the current operation
    prior       \* the bucket a fully uploading sync has just finished on

vars == <<fs, sep, owner, store, manifest, pc, call, listing, stack, visits,
          result, run, prior>>

---------------------------------------------------------------------------
(* Bounds and sizes *)

CHUNK_SIZE == 2
DIGEST_SIZE == 2
MaxSymlinks == 1
MaxPages == 2

MaxFileLen == 2 * CHUNK_SIZE + 1

Buckets == {"b1", "b2"}
BucketNames == Buckets \cup {"taken"}

Min(a, b) == IF a < b THEN a ELSE b

EmptyMap == <<>>

---------------------------------------------------------------------------
(* Python values *)

PyStr(s) == [t |-> "str", v |-> s]
PyNone == [t |-> "NoneType", v |-> <<>>]

HexDigits == <<"0", "1", "2", "3", "4", "5", "6", "7",
               "8", "9", "a", "b", "c", "d", "e", "f">>

HexByte(b) == <<HexDigits[(b \div 16) + 1], HexDigits[(b % 16) + 1]>>

RECURSIVE Hex(_)
Hex(bytes) ==
    IF bytes = <<>> THEN <<>> ELSE HexByte(Head(bytes)) \o Hex(Tail(bytes))

RECURSIVE Dec(_)
Dec(n) ==
    IF n < 10 THEN <<HexDigits[n + 1]>>
    ELSE Dec(n \div 10) \o <<HexDigits[(n % 10) + 1]>>

RECURSIVE Join(_, _)
Join(parts, s) ==
    IF Len(parts) <= 1 THEN parts
    ELSE <<Head(parts), s>> \o Join(Tail(parts), s)

---------------------------------------------------------------------------
(* hashlib.md5 *)

RECURSIVE Mix(_, _)
Mix(h, bytes) ==
    IF bytes = <<>> THEN h
    ELSE Mix((h * 33 + Head(bytes) + 1) % (256 * 256), Tail(bytes))

RECURSIVE ToBytes(_, _)
ToBytes(h, n) ==
    IF n = 0 THEN <<>> ELSE Append(ToBytes(h \div 256, n - 1), h % 256)

Digest(bytes) == ToBytes(Mix(5381, bytes), DIGEST_SIZE)

hash_data(data) == [digest |-> Digest(data), hexdigest |-> Hex(Digest(data))]

---------------------------------------------------------------------------
(* gen_etag: the chunked read of a file and the fingerprint built from it *)

\* f.read(size) on a binary file: up to size bytes, fewer only at the end
Read(rest, size) == SubSeq(rest, 1, Min(size, Len(rest)))

Unread(rest, size) == SubSeq(rest, Min(size, Len(rest)) + 1, Len(rest))

\* The loop with the empty read hashed before the test for it
RECURSIVE ReadLoopTrailing(_, _)
ReadLoopTrailing(rest, hashes) ==
    LET data == Read(rest, CHUNK_SIZE) IN
    IF data = <<>> THEN Append(hashes, hash_data(data))
    ELSE ReadLoopTrailing(Unread(rest, CHUNK_SIZE), Append(hashes, hash_data(data)))

RECURSIVE ReadLoop(_, _)
ReadLoop(rest, hashes) ==
    LET data == Read(rest, CHUNK_SIZE) IN
    IF data = <<>> THEN hashes
    ELSE ReadLoop(Unread(rest, CHUNK_SIZE), Append(hashes, hash_data(data)))

\* reduce(lambda x, y: x + y, (h.digest() for h in hashes))
RECURSIVE ConcatDigests(_)
ConcatDigests(hashes) ==
    IF Len(hashes) = 1 THEN hashes[1].digest
    ELSE ConcatDigests(SubSeq(hashes, 1, Len(hashes) - 1))
             \o hashes[Len(hashes)].digest

Quote == "\""

EtagOf(hashes) ==
    IF hashes = <<>> THEN PyNone
    ELSE IF Len(hashes) = 1
         THEN PyStr(<<Quote>> \o hashes[1].hexdigest \o <<Quote>>)
         ELSE PyStr(<<Quote>> \o hash_data(ConcatDigests(hashes)).hexdigest
                        \o <<"-">> \o Dec(Len(hashes)) \o <<Quote>>)

gen_etag(content) == EtagOf(ReadLoop(content, <<>>))

---------------------------------------------------------------------------
(* The object store's side of bucket.upload_file(..., Config=transfer_config) *)

multipart_chunksize == CHUNK_SIZE
multipart_threshold == CHUNK_SIZE

RECURSIVE Parts(_, _)
Parts(content, size) ==
    IF Len(content) <= size THEN <<content>>
    ELSE <<SubSeq(content, 1, size)>>
             \o Parts(SubSeq(content, size + 1, Len(content)), size)

RECURSIVE PartDigests(_)
PartDigests(parts) ==
    IF parts = <<>> THEN <<>>
    ELSE Digest(Head(parts)) \o PartDigests(Tail(parts))

\* The ETag the store records: below the threshold one PutObject, at or above
\* it a multipart upload in parts of multipart_chunksize bytes.
StoreETag(content) ==
    IF Len(content) < multipart_threshold
    THEN <<Quote>> \o Hex(Digest(content)) \o <<Quote>>
    ELSE LET parts == Parts(content, multipart_chunksize) IN
         <<Quote>> \o Hex(Digest(PartDigests(parts)))
             \o <<"-">> \o Dec(Len(parts)) \o <<Quote>>

\* mimetypes.guess_type(key)[0] or 'text/plain'
ContentType(name) ==
    CASE name = "page.html" -> "text/html"
      [] name = "a.txt" -> "text/plain"
      [] name = "b.txt" -> "text/plain"
      [] OTHER -> "text/plain"

---------------------------------------------------------------------------
(* The local file system *)

Dir == [kind |-> "dir", target |-> <<>>, content |-> <<>>]
File(c) == [kind |-> "file", target |-> <<>>, content |-> c]
Link(t) == [kind |-> "link", target |-> t, content |-> <<>>]

Content(n) == [i \in 1..n |-> i % 256]
Contents == {Content(n) : n \in 0..MaxFileLen}

\* Path(pathname).expanduser().resolve()
root == <<"site">>

Base == (<<>> :> Dir) @@ (root :> Dir)

Flat(c) == Base @@ (<<"site", "a.txt">> :> File(c))

Nested ==
    Base @@ (<<"site", "a.txt">> :> File(Content(1)))
         @@ (<<"site", "empty">> :> Dir)
         @@ (<<"site", "sub">> :> Dir)
         @@ (<<"site", "sub", "dir">> :> Dir)
         @@ (<<"site", "sub", "dir", "page.html">> :> File(Content(CHUNK_SIZE)))

LinkedDir ==
    Base @@ (<<"site", "sub">> :> Dir)
         @@ (<<"site", "sub", "b.txt">> :> File(Content(1)))
         @@ (<<"site", "ln">> :> Link(<<"site", "sub">>))

Loop ==
    Base @@ (<<"site", "a.txt">> :> File(Content(1)))
         @@ (<<"site", "loop">> :> Link(root))

Up ==
    Base @@ (<<"site", "a.txt">> :> File(Content(1)))
         @@ (<<"site", "up">> :> Link(<<>>))

FileSystems == {Flat(c) : c \in Contents} \cup {Nested, LinkedDir, Loop, Up}

\* The path a lookup of p ends at, following symbolic links; the lookup fails
\* on a missing entry, on a file used as a directory, and (ELOOP) once more
\* than MaxSymlinks links have been followed.
RECURSIVE ResolveFrom(_, _, _)
ResolveFrom(real, rest, hops) ==
    IF rest = <<>> THEN [ok |-> TRUE, path |-> real]
    ELSE LET cand == Append(real, Head(rest)) IN
         IF cand \notin DOMAIN fs THEN [ok |-> FALSE, path |-> <<>>]
         ELSE IF fs[cand].kind = "link"
              THEN IF hops >= MaxSymlinks THEN [ok |-> FALSE, path |-> <<>>]
                   ELSE ResolveFrom(fs[cand].target, Tail(rest), hops + 1)
              ELSE IF fs[cand].kind = "file" /\ Tail(rest) # <<>>
                   THEN [ok |-> FALSE, path |-> <<>>]
                   ELSE ResolveFrom(cand, Tail(rest), hops)

Resolve(p) == ResolveFrom(<<>>, p, 0)

\* Path.is_dir() and Path.is_file(): both follow symbolic links and answer
\* False when the lookup fails
is_dir(p) == Resolve(p).ok /\ fs[Resolve(p).path].kind = "dir"
is_file(p) == Resolve(p).ok /\ fs[Resolve(p).path].kind = "file"

\* Path.iterdir(): the directory's entries, each as p / name
iterdir(p) ==
    LET real == Resolve(p).path IN
    {Append(p, q[Len(q)]) :
        q \in {r \in DOMAIN fs : /\ Len(r) = Len(real) + 1
                                 /\ SubSeq(r, 1, Len(real)) = real}}

ContentOf(p) == fs[Resolve(p).path].content

\* str(p.relative_to(root)): the components after root, joined by the
\* platform's separator
relative_to(p, base) == SubSeq(p, Len(base) + 1, Len(p))
KeyOf(p) == Join(relative_to(p, root), sep)

---------------------------------------------------------------------------
(* The state after BucketManager(session) *)

NoCall == [op |-> "none", bucket |-> "none"]
NoResult == [status |-> "none", value |-> "none"]
NoListing == [remaining |-> EmptyMap, pagesLeft |-> 0]
NoRun == [pages |-> <<>>, listFailed |-> FALSE, rerun |-> FALSE,
          createCode |-> "none"]

Init ==
    /\ \/ sep = "/" /\ fs \in FileSystems
       \/ sep = "\\" /\ fs = Nested
    /\ owner = [n \in BucketNames |->
                   IF n = "b1" THEN "me" ELSE IF n = "taken" THEN "other" ELSE "none"]
    /\ store = [b \in Buckets |-> EmptyMap]
    /\ manifest = EmptyMap
    /\ pc = "idle"
    /\ call = NoCall
    /\ listing = NoListing
    /\ stack = <<>>
    /\ visits = EmptyBag
    /\ result = NoResult
    /\ run = NoRun
    /\ prior = "none"

---------------------------------------------------------------------------
(* init_bucket *)

\* What create_bucket answers for a name
CreateCodes(name) ==
    IF owner[name] = "none" THEN {"ok", "AccessDenied"}
    ELSE IF owner[name] = "me" THEN {"BucketAlreadyOwnedByYou"}
    ELSE {"BucketAlreadyExists"}

\* The except branch for BucketAlreadyOwnedByYou: s3.Bucket(bucket_name), where
\* no name s3 is bound in the method or the module
OwnedBranch(name) == [status |-> "NameError", value |-> "s3"]

init_bucket(name, code) ==
    IF code = "ok" THEN [status |-> "ok", value |-> name]
    ELSE IF code = "BucketAlreadyOwnedByYou" THEN OwnedBranch(name)
    ELSE [status |-> "ClientError", value |-> code]

InitBucket(name) ==
    /\ pc = "idle"
    /\ \E code \in CreateCodes(name) :
          /\ owner' = IF code = "ok" THEN [owner EXCEPT ![name] = "me"] ELSE owner
          /\ result' = init_bucket(name, code)
          /\ run' = [NoRun EXCEPT !.createCode = code]
    /\ call' = [op |-> "init_bucket", bucket |-> name]
    /\ visits' = EmptyBag
    /\ prior' = "none"
    /\ UNCHANGED <<fs, sep, store, manifest, pc, listing, stack>>

---------------------------------------------------------------------------
(* load_manifest *)

ETags(objects) == [k \in DOMAIN objects |-> objects[k].ETag]

Restrict(m, keys) == [k \in keys |-> m[k]]

\* One page of list_objects_v2: 'Contents' is missing when the page is empty
Page(objects) ==
    IF DOMAIN objects = {} THEN [KeyCount |-> 0]
    ELSE [KeyCount |-> Cardinality(DOMAIN objects), Contents |-> objects]

\* page.get('Contents', [])
PageContents(page) ==
    IF "Contents" \in DOMAIN page THEN page.Contents ELSE EmptyMap

\* The load that reads the first page alone
ApplyFirstPageOnly(m, page, n) ==
    IF n = 1
    THEN [k \in DOMAIN m \cup DOMAIN PageContents(page) |->
             IF k \in DOMAIN PageContents(page) THEN PageContents(page)[k] ELSE m[k]]
    ELSE m

\* for obj in page.get('Contents', []): self.manifest[obj['Key']] = obj['ETag']
\* (n is the page's number, from 1)
ApplyPage(m, page, n) ==
    LET c == PageContents(page) IN
    [k \in DOMAIN m \cup DOMAIN c |-> IF k \in DOMAIN c THEN c[k] ELSE m[k]]

Frame(d) == [dir |-> d, todo |-> iterdir(d)]

\* A sync that swallows the listing error and walks on
OnListingErrorIgnored(op) == IF op = "sync" THEN "walking" ELSE "idle"

\* Where a failed page fetch leaves the caller: load_manifest and sync catch
\* nothing, so the error ends the operation
OnListingError(op) == "idle"

StartLoad(op, b) ==
    /\ pc = "idle"
    /\ pc' = "listing"
    /\ call' = [op |-> op, bucket |-> b]
    /\ \E np \in 1..MaxPages :
          listing' = [remaining |-> ETags(store[b]), pagesLeft |-> np]
    /\ visits' = EmptyBag
    /\ stack' = <<>>
    /\ result' = NoResult
    /\ run' = [NoRun EXCEPT !.rerun = (op = "sync" /\ prior = b)]
    /\ prior' = "none"
    /\ UNCHANGED <<fs, sep, owner, store, manifest>>

LoadManifestStart(b) == StartLoad("load_manifest", b)

SyncStart(b) == StartLoad("sync", b)

LoadPage ==
    /\ pc = "listing"
    /\ owner[call.bucket] = "me"
    /\ \E keys \in SUBSET DOMAIN listing.remaining :
          /\ listing.pagesLeft = 1 => keys = DOMAIN listing.remaining
          /\ manifest' = ApplyPage(manifest,
                                   Page(Restrict(listing.remaining, keys)),
                                   Len(run.pages) + 1)
          /\ listing' = [remaining |->
                            Restrict(listing.remaining,
                                     DOMAIN listing.remaining \ keys),
                         pagesLeft |-> listing.pagesLeft - 1]
          /\ run' = [run EXCEPT !.pages = Append(@, keys)]
    /\ IF listing.pagesLeft > 1
       THEN UNCHANGED <<pc, stack, result>>
       ELSE IF call.op = "sync"
            THEN /\ pc' = "walking"
                 /\ stack' = <<Frame(root)>>
                 /\ UNCHANGED result
            ELSE /\ pc' = "idle"
                 /\ result' = [status |-> "ok", value |-> "None"]
                 /\ UNCHANGED stack
    /\ UNCHANGED <<fs, sep, owner, store, call, visits, prior>>

LoadPageFail ==
    /\ pc = "listing"
    /\ LET next == OnListingError(call.op) IN
       /\ pc' = next
       /\ stack' = IF next = "walking" THEN <<Frame(root)>> ELSE <<>>
       /\ result' = IF next = "idle"
                    THEN [status |-> "ListingError", value |-> "ClientError"]
                    ELSE result
    /\ listing' = NoListing
    /\ run' = [run EXCEPT !.listFailed = TRUE]
    /\ UNCHANGED <<fs, sep, owner, store, manifest, call, visits, prior>>

---------------------------------------------------------------------------
(* upload_file and the directory walk of sync *)

\* self.manifest.get(key), whose default is None
ManifestGetNoDefault(m, key) == IF key \in DOMAIN m THEN PyStr(m[key]) ELSE PyNone

\* self.manifest.get(key, '')
ManifestGet(m, key) == IF key \in DOMAIN m THEN PyStr(m[key]) ELSE PyStr(<<>>)

Visit(p, etag, put) == [path |-> p, key |-> KeyOf(p), etag |-> etag, put |-> put]

PutObject(objects, key, content) ==
    (key :> [ETag |-> StoreETag(content),
             ContentType |-> ContentType(key[Len(key)])]) @@ objects

\* upload_file(bucket, str(p), str(p.relative_to(root))), then the walk goes
\* on with the frames stk; a failed transfer raises out of sync
upload_file(b, p, stk) ==
    LET etag == gen_etag(ContentOf(p)) IN
    IF ManifestGet(manifest, KeyOf(p)) = etag
    THEN /\ visits' = visits (+) SetToBag({Visit(p, etag, FALSE)})
         /\ stack' = stk
         /\ UNCHANGED <<store, pc, result>>
    ELSE /\ visits' = visits (+) SetToBag({Visit(p, etag, TRUE)})
         /\ \/ /\ store' = [store EXCEPT ![b] = PutObject(@, KeyOf(p), ContentOf(p))]
               /\ stack' = stk
               /\ UNCHANGED <<pc, result>>
            \/ /\ stack' = <<>>
               /\ pc' = "idle"
               /\ result' = [status |-> "UploadError", value |-> "S3UploadFailedError"]
               /\ UNCHANGED store

\* One entry of "for p in target.iterdir()" in the innermost running
\* handle_directory
WalkStep ==
    /\ pc = "walking"
    /\ stack # <<>>
    /\ \E p \in stack[Len(stack)].todo :
          LET rest == [stack EXCEPT ![Len(stack)].todo = @ \ {p}]
              stk == IF is_dir(p) THEN Append(rest, Frame(p)) ELSE rest
          IN IF is_file(p)
             THEN upload_file(call.bucket, p, stk)
             ELSE /\ stack' = stk
                  /\ UNCHANGED <<store, visits, pc, result>>
    /\ prior' = "none"
    /\ UNCHANGED <<fs, sep, owner, manifest, call, listing, run>>

AllPut == visits # EmptyBag /\ \A v \in BagToSet(visits) : v.put

\* The innermost handle_directory has no entry left and returns; when it is
\* the outermost one, sync returns
WalkReturn ==
    /\ pc = "walking"
    /\ stack # <<>>
    /\ stack[Len(stack)].todo = {}
    /\ stack' = SubSeq(stack, 1, Len(stack) - 1)
    /\ IF Len(stack) = 1
       THEN /\ pc' = "idle"
            /\ result' = [status |-> "ok", value |-> "None"]
            /\ prior' = IF AllPut THEN call.bucket ELSE "none"
       ELSE UNCHANGED <<pc, result, prior>>
    /\ UNCHANGED <<fs, sep, owner, store, manifest, call, listing, visits, run>>

---------------------------------------------------------------------------
(* The environment, between two operations *)

\* Another client deletes an object of a bucket
RemoveObject(b, k) ==
    /\ pc = "idle"
    /\ k \in DOMAIN store[b]
    /\ store' = [store EXCEPT ![b] = Restrict(@, DOMAIN @ \ {k})]
    /\ prior' = "none"
    /\ UNCHANGED <<fs, sep, owner, manifest, pc, call, listing, stack, visits,
                   result, run>>

AllKeys == UNION {DOMAIN store[b] : b \in Buckets}

Next ==
    \/ \E name \in BucketNames : InitBucket(name)
    \/ \E b \in Buckets : LoadManifestStart(b)
    \/ \E b \in Buckets : SyncStart(b)
    \/ LoadPage
    \/ LoadPageFail
    \/ WalkStep
    \/ WalkReturn
    \/ \E b \in Buckets : \E k \in AllKeys : RemoveObject(b, k)

Spec == Init /\ [][Next]_vars

---------------------------------------------------------------------------
(* Properties *)

Visited == BagToSet(visits)

\* The load in progress fetches its last page in this step
LoadCompletes == pc = "listing" /\ pc' # "listing" /\ ~run'.listFailed

LoadCompleted == call.op \in {"sync", "load_manifest"} /\ pc # "listing"
                     /\ ~run.listFailed /\ run.pages # <<>>

\* C1: upload_file issues a put unless the manifest holds the key with a value
\* exactly equal to the local fingerprint (None for an empty file included):
\* every upload_file call made in a step puts iff the manifest misses the key
\* or holds another value for it.
C1_PutUnlessManifestMatches ==
    [][\A v \in BagToSet(visits') :
          CopiesIn(v, visits') > CopiesIn(v, visits)
              => (v.put <=> ~(/\ v.key \in DOMAIN manifest
                              /\ PyStr(manifest[v.key]) = v.etag))]_vars

\* A sync run that skipped one file on equal ETags and put another whose key
\* the manifest holds with a different ETag
C1_Witness ==
    /\ call.op = "sync"
    /\ \E v \in Visited : ~v.put /\ v.key \in DOMAIN manifest
    /\ \E v \in Visited :
          v.put /\ v.key \in DOMAIN manifest /\ PyStr(manifest[v.key]) # v.etag

\* C2: a successful load leaves the manifest equal to the key -> ETag listing
\* of the bucket just loaded, no entry of an earlier load surviving.
C2_LoadReplacesManifest ==
    [][LoadCompletes => manifest' = ETags(store[call.bucket])]_vars

\* C3: a load whose pages are all fetched puts every object of the bucket, on
\* whatever page it came, into the manifest with its ETag.
C3_PaginationDrained ==
    [][LoadCompletes =>
          \A k \in DOMAIN store[call.bucket] :
              /\ k \in DOMAIN manifest'
              /\ manifest'[k] = store[call.bucket][k].ETag]_vars

\* A completed load of several pages whose first and last page both held
\* objects
C3_Witness ==
    /\ LoadCompleted
    /\ Len(run.pages) >= 2
    /\ run.pages[1] # {}
    /\ run.pages[Len(run.pages)] # {}

\* C4: a listing page that fails during the load of sync fails the run: the
\* error is the outcome of sync, no directory is walked, no upload_file call is
\* made and so no put is issued.
C4_ListingFailureAbortsSync ==
    (call.op = "sync" /\ run.listFailed)
        => /\ pc = "idle"
           /\ result.status = "ListingError"
           /\ stack = <<>>
           /\ visits = EmptyBag

\* A sync over a directory with entries whose second page failed
C4_Witness ==
    /\ call.op = "sync"
    /\ run.listFailed
    /\ Len(run.pages) >= 1
    /\ iterdir(root) # {}

\* C5: init_bucket returns a handle to the bucket when create_bucket answers
\* BucketAlreadyOwnedByYou, and lets any other creation failure through
\* unchanged.
C5_InitBucketIdempotent ==
    call.op = "init_bucket"
        => /\ run.createCode = "BucketAlreadyOwnedByYou"
                => result = [status |-> "ok", value |-> call.bucket]
           /\ run.createCode \notin {"ok", "BucketAlreadyOwnedByYou"}
                => result = [status |-> "ClientError", value |-> run.createCode]

\* The raw digests of the k chunks of c, cut at multiples of CHUNK_SIZE
RECURSIVE SliceDigests(_, _)
SliceDigests(c, k) ==
    IF k = 0 THEN <<>>
    ELSE SliceDigests(c, k - 1)
             \o Digest(SubSeq(c, (k - 1) * CHUNK_SIZE + 1, Min(k * CHUNK_SIZE, Len(c))))

ChunkCount(n) == (n + CHUNK_SIZE - 1) \div CHUNK_SIZE

\* C6: the fingerprint of a file of n bytes is decided by k = ceil(n /
\* CHUNK_SIZE): None for k = 0, the quoted hex digest of the content for k = 1,
\* the quoted hex digest of the k raw chunk digests followed by -k for k > 1.
C6_EtagFormByChunkCount ==
    \A v \in Visited :
        LET c == ContentOf(v.path)
            k == ChunkCount(Len(c))
        IN /\ k = 0 => v.etag = PyNone
           /\ k = 1 => v.etag = PyStr(<<Quote>> \o Hex(Digest(c)) \o <<Quote>>)
           /\ k > 1 => v.etag = PyStr(<<Quote>> \o Hex(Digest(SliceDigests(c, k)))
                                          \o <<"-">> \o Dec(k) \o <<Quote>>)

\* upload_file was called for a file of exactly 2 * CHUNK_SIZE bytes
C6_Witness ==
    \E v \in Visited :
        /\ Len(ContentOf(v.path)) = 2 * CHUNK_SIZE
        /\ SubSeq(v.etag.v, Len(v.etag.v) - 2, Len(v.etag.v)) = <<"-", "2", Quote>>

RegularFiles ==
    {q \in DOMAIN fs : /\ fs[q].kind = "file"
                       /\ Len(q) > Len(root)
                       /\ SubSeq(q, 1, Len(root)) = root}

SyncReturned == call.op = "sync" /\ pc = "idle" /\ result.status = "ok"

\* C7: a sync run passes every regular file under the root to upload_file
\* exactly once and never a directory.
C7_EachFileOnce ==
    SyncReturned
        => /\ \A f \in RegularFiles :
                 /\ Cardinality({v \in Visited : Resolve(v.path).path = f}) = 1
                 /\ \A v \in Visited :
                        Resolve(v.path).path = f => CopiesIn(v, visits) = 1
           /\ \A v \in Visited : ~is_dir(v.path)

IsRealPath(p) == Resolve(p).ok /\ Resolve(p).path = p

\* C8: the walk follows no symbolic link to a directory: every directory it
\* enters and every file it passes to upload_file is at its real path.
C8_NoSymlinkFollowed ==
    /\ \A i \in 1..Len(stack) : IsRealPath(stack[i].dir)
    /\ \A v \in Visited : IsRealPath(v.path)

\* C9: the key of a file is its path relative to the root, joined by forward
\* slashes, whatever the platform's separator.
C9_ForwardSlashKeys ==
    \A v \in Visited : v.key = Join(relative_to(v.path, root), "/")

\* C10: in a sync that follows at once a sync which put every file of the
\* unchanged directory into the same bucket, no non-empty file is put again.
C10_SecondSyncUploadsNothing ==
    run.rerun => \A v \in Visited : v.put => ContentOf(v.path) = <<>>

=============================================================================
